---- MODULE Spec2Model ----
(***************************************************************************)
(* The renderer-side form controller of news_digester                      *)
(* (src/presentation/controllers/AppController.ts): platform checkboxes,   *)
(* the dynamically fetched per-platform config fragments, the submit       *)
(* handler and the fixed-delay results timer.                              *)
(*                                                                         *)
(* Every action is one run-to-completion step of the single UI thread: a   *)
(* DOM event handler up to its first await, the continuation of an await,  *)
(* or a timer callback.                                                    *)
(*                                                                         *)
(* The Electron main process (infrastructure/electron/WindowManager.ts and *)
(* AppController.ts) and the pass-through service and use case are         *)
(* modelled further down, each under a specification of its own.           *)
(***************************************************************************)
EXTENDS Integers, Sequences, FiniteSets, TLC

VARIABLES
    checked,         \* checkbox.checked of every platform checkbox
    container,       \* children of #platform-config, in document order
    loadedConfigs,   \* AppController.loadedConfigs
    requests,        \* per platform: fetch() calls issued so far
    fetching,        \* per platform: loadPlatformConfig calls awaiting fetch()
    reading,         \* per platform: loadPlatformConfig calls awaiting response.text()
    resultsDisplay,  \* resultsDiv.style.display
    resultsContent,  \* resultsContent.innerHTML
    timers,          \* pending setTimeout callbacks, each holding its configs
    alerts,          \* messages passed to alert(), oldest first
    consoleErrors,   \* number of console.error calls
    unhandled,       \* number of promise rejections that left a handler
    nEvents,         \* user events (clicks, edits, submits) dispatched so far
    call,            \* a direct call of getPlatformConfig and what it returned
    processPlatform, \* process.platform of the main process
    appReady,        \* Electron's app is ready
    browserWindows,  \* every BrowserWindow constructed so far, oldest first
    windows,         \* WindowManager.windows
    allClosedPending,\* window-all-closed was emitted and its listener has not run
    quitCalls,       \* number of app.quit() calls
    uncaughtMain,    \* exceptions thrown out of a main-process listener
    service          \* calls of ExampleService / ExampleUseCase and their results

\* the renderer's form controller
formVars == <<checked, container, loadedConfigs, requests, fetching, reading,
              resultsDisplay, resultsContent, timers, alerts, consoleErrors,
              unhandled, nEvents, call>>

\* the main process
mainVars == <<processPlatform, appReady, browserWindows, windows,
              allClosedPending, quitCalls, uncaughtMain>>

\* what the form controller never touches
outside == <<mainVars, service>>

vars == <<checked, container, loadedConfigs, requests, fetching, reading, resultsDisplay,
          resultsContent, timers, alerts, consoleErrors, unhandled,
          nEvents, call, processPlatform, appReady, browserWindows, windows,
          allClosedPending, quitCalls, uncaughtMain, service>>

-----------------------------------------------------------------------------
(* Bounds of the model. *)

\* the user clicks, edits and submits at most this many times in all
MaxEvents == 5

-----------------------------------------------------------------------------
(* The page. index.html and the four fragment files are not part of the    *)
(* sources at hand; what the controller needs of them is stated here.      *)

\* value attributes of the input[name="platforms"] checkboxes, in document order
Checkboxes == <<"twitter", "instagram", "facebook", "reddit">>

Platforms == {Checkboxes[i] : i \in 1..Len(Checkboxes)}

\* the elements of index.html the constructor looks up by id
PageElements == {"platform-config", "scraper-form", "results", "results-content"}

\* document.getElementById(id) !== null, for those
HasElement(id) == id \in PageElements

\* a name no case of getPlatformConfig's switch handles
OtherPlatform == "linkedin"

\* the value of `x?.value` when getElementById found no element
Undefined == "undefined"

\* the form controls of <platform>.html, by element id, with their initial values
FragmentHtml(platform) ==
    CASE platform = "twitter" ->
           ("twitter-query" :> "") @@ ("twitter-count" :> "")
      [] platform = "instagram" ->
           ("instagram-username" :> "") @@ ("instagram-type" :> "posts")
      [] platform = "facebook" ->
           ("facebook-page" :> "") @@ ("facebook-content" :> "posts")
      [] platform = "reddit" ->
           ("reddit-subreddit" :> "") @@ ("reddit-sort" :> "hot")
             @@ ("reddit-limit" :> "")

\* what the user can put into a control
FieldValues(id) ==
    CASE id \in {"twitter-query", "instagram-username", "facebook-page",
                 "reddit-subreddit"} -> {"", "news"}
      [] id \in {"twitter-count", "reddit-limit"} -> {"", "5"}
      [] id = "instagram-type" -> {"posts", "stories"}
      [] id = "facebook-content" -> {"posts", "comments"}
      [] id = "reddit-sort" -> {"hot", "new"}

\* the element a successful load appends: <div id="config-<platform>"> around
\* the fragment's controls
ConfigDiv(platform) == [platform |-> platform, value |-> FragmentHtml(platform)]

-----------------------------------------------------------------------------
(* DOM helpers *)

Min(S) == CHOOSE x \in S : \A y \in S : x <= y

\* indices of the elements with id config-<platform>
FragmentsOf(dom, platform) ==
    {i \in 1..Len(dom) : dom[i].platform = platform}

\* document.getElementById(id)?.value : the first match in document order
ValueOf(dom, id) ==
    LET hits == {i \in 1..Len(dom) : id \in DOMAIN dom[i].value}
    IN  IF hits = {} THEN Undefined ELSE dom[Min(hits)].value[id]

RemoveAt(s, i) == SubSeq(s, 1, i - 1) \o SubSeq(s, i + 1, Len(s))

\* a truthiness test that lets the empty string through
Truthy_EmptyPasses(v) == v # Undefined

\* JavaScript truthiness of a string-or-undefined value
Truthy(v) == v # Undefined /\ v # ""

-----------------------------------------------------------------------------
(* Collecting the configs. A config is the object's own properties in       *)
(* insertion order, each a <<key, value>> pair.                             *)

\* getPlatformConfig's null; no config is empty, every one holds "platform"
Null == <<>>

getPlatformConfig(platform, dom) ==
    CASE platform = "twitter" ->
           LET query == ValueOf(dom, "twitter-query")
               count == ValueOf(dom, "twitter-count")
           IN  IF ~Truthy(query) THEN Null
               ELSE << <<"platform", platform>>, <<"query", query>>,
                       <<"count", IF Truthy(count) THEN count ELSE "10">> >>
      [] platform = "instagram" ->
           LET username == ValueOf(dom, "instagram-username")
               type == ValueOf(dom, "instagram-type")
           IN  IF ~Truthy(username) THEN Null
               ELSE << <<"platform", platform>>, <<"username", username>>,
                       <<"type", type>> >>
      [] platform = "facebook" ->
           LET page == ValueOf(dom, "facebook-page")
               contentType == ValueOf(dom, "facebook-content")
           IN  IF ~Truthy(page) THEN Null
               ELSE << <<"platform", platform>>, <<"page", page>>,
                       <<"contentType", contentType>> >>
      [] platform = "reddit" ->
           LET subreddit == ValueOf(dom, "reddit-subreddit")
               sort == ValueOf(dom, "reddit-sort")
               limit == ValueOf(dom, "reddit-limit")
           IN  IF ~Truthy(subreddit) THEN Null
               ELSE << <<"platform", platform>>, <<"subreddit", subreddit>>,
                       <<"sort", sort>>,
                       <<"limit", IF Truthy(limit) THEN limit ELSE "25">> >>
      [] OTHER -> Null

\* the checked checkboxes' values, in document order
RECURSIVE SelectedFrom(_, _)
SelectedFrom(boxes, isChecked) ==
    IF boxes = <<>> THEN <<>>
    ELSE (IF isChecked[Head(boxes)] THEN <<Head(boxes)>> ELSE <<>>)
           \o SelectedFrom(Tail(boxes), isChecked)

\* a selection that takes every checkbox, checked or not
getSelectedPlatforms_All == Checkboxes

getSelectedPlatforms == SelectedFrom(Checkboxes, checked)

\* a collection that keeps the nulls' place with an empty twitter-like bag
RECURSIVE getAllPlatformConfigs_KeepsNull(_, _)
getAllPlatformConfigs_KeepsNull(platforms, dom) ==
    IF platforms = <<>> THEN <<>>
    ELSE LET config == getPlatformConfig(Head(platforms), dom)
         IN  <<IF config # Null THEN config
               ELSE << <<"platform", Head(platforms)>> >> >>
               \o getAllPlatformConfigs_KeepsNull(Tail(platforms), dom)

RECURSIVE getAllPlatformConfigs(_, _)
getAllPlatformConfigs(platforms, dom) ==
    IF platforms = <<>> THEN <<>>
    ELSE LET config == getPlatformConfig(Head(platforms), dom)
         IN  (IF config # Null THEN <<config>> ELSE <<>>)
               \o getAllPlatformConfigs(Tail(platforms), dom)

\* config[key]
Field(config, key) ==
    LET hits == {i \in 1..Len(config) : config[i][1] = key}
    IN  IF hits = {} THEN Undefined ELSE config[Min(hits)][2]

Keys(config) == {config[i][1] : i \in 1..Len(config)}

-----------------------------------------------------------------------------
(* What startScraping writes into #results-content *)

\* configs.map(c => c.platform), the operand of join(', ')
PlatformsList(configs) == [i \in 1..Len(configs) |-> Field(configs[i], "platform")]

LoadingHtml(configs) == [kind |-> "loading", platforms |-> PlatformsList(configs)]

\* platform.charAt(0).toUpperCase() + platform.slice(1)
Capitalize(platform) ==
    CASE platform = "twitter" -> "Twitter"
      [] platform = "instagram" -> "Instagram"
      [] platform = "facebook" -> "Facebook"
      [] platform = "reddit" -> "Reddit"
      [] OTHER -> platform

\* JSON.stringify(config, null, 2): the properties in insertion order, those
\* whose value is undefined left out
IsDefined(kv) == kv[2] # Undefined
JsonStringify(config) == SelectSeq(config, IsDefined)

ResultEntry(config, index) ==
    [heading |-> Capitalize(Field(config, "platform")),
     status |-> "Scraping completed!",
     separated |-> index > 0,
     json |-> JsonStringify(config)]

\* results that show the first config only
ResultsHtml_FirstOnly(configs) ==
    [kind |-> "results",
     entries |-> [i \in 1..1 |-> ResultEntry(configs[i], i - 1)]]

ResultsHtml(configs) ==
    [kind |-> "results",
     entries |-> [i \in 1..Len(configs) |-> ResultEntry(configs[i], i - 1)]]

-----------------------------------------------------------------------------
(* The main process and the service before anything has run. The form       *)
(* controller's specifications hold them there: the renderer reads none of  *)
(* it.                                                                      *)

\* the names createWindow is called with
WindowNames == {"main", "settings"}

\* Map.get(name) of a name the map does not hold
NoWindow == 0

MainIdle ==
    /\ appReady = FALSE
    /\ browserWindows = <<>>
    /\ windows = [name \in WindowNames |-> NoWindow]
    /\ allClosedPending = FALSE
    /\ quitCalls = 0
    /\ uncaughtMain = 0

ServiceIdle == service = <<>>

FormInit ==
    /\ checked = [p \in Platforms |-> FALSE]
    /\ container = <<>>
    /\ loadedConfigs = {}
    /\ requests = [p \in Platforms |-> 0]
    /\ fetching = [p \in Platforms |-> 0]
    /\ reading = [p \in Platforms |-> 0]
    /\ resultsDisplay = "css"
    /\ resultsContent = [kind |-> "empty"]
    /\ timers = <<>>
    /\ alerts = <<>>
    /\ consoleErrors = 0
    /\ unhandled = 0
    /\ nEvents = 0
    /\ call = [pc |-> "none"]

Init ==
    /\ FormInit
    /\ processPlatform = "linux"
    /\ MainIdle
    /\ ServiceIdle

\* the guard of loadPlatformConfig: the container exists (it is part of the
\* page) and the platform is not in the memo
ShouldFetch(platform) ==
    HasElement("platform-config") /\ platform \notin loadedConfigs

\* loadPlatformConfig up to its first await: the fetch is issued
loadPlatformConfig(platform) ==
    /\ IF ShouldFetch(platform)
       THEN /\ requests' = [requests EXCEPT ![platform] = @ + 1]
            /\ fetching' = [fetching EXCEPT ![platform] = @ + 1]
       ELSE UNCHANGED <<requests, fetching>>
    /\ UNCHANGED <<container, loadedConfigs>>

\* removePlatformConfig: getElementById finds the first element of that id
removePlatformConfig(platform) ==
    LET divs == FragmentsOf(container, platform)
    IN  /\ container' = IF divs = {} THEN container
                        ELSE RemoveAt(container, Min(divs))
        /\ loadedConfigs' = IF divs = {} THEN loadedConfigs
                            ELSE loadedConfigs \ {platform}
        /\ UNCHANGED <<requests, fetching>>

\* a change listener that leaves the results panel as it is
HandlePlatformToggle_KeepsResults(platform) ==
    /\ nEvents < MaxEvents
    /\ nEvents' = nEvents + 1
    /\ checked' = [checked EXCEPT ![platform] = ~@]
    /\ resultsDisplay' = resultsDisplay
    /\ IF checked'[platform]
       THEN loadPlatformConfig(platform)
       ELSE removePlatformConfig(platform)
    /\ UNCHANGED <<reading, resultsContent, timers, alerts, consoleErrors,
                   unhandled, call, outside>>

\* the user clicks a checkbox: its state flips and the change listener runs
HandlePlatformToggle(platform) ==
    /\ nEvents < MaxEvents
    /\ nEvents' = nEvents + 1
    /\ checked' = [checked EXCEPT ![platform] = ~@]
    /\ resultsDisplay' = IF HasElement("results") THEN "none" ELSE resultsDisplay
    /\ IF checked'[platform]
       THEN loadPlatformConfig(platform)
       ELSE removePlatformConfig(platform)
    /\ UNCHANGED <<reading, resultsContent, timers, alerts, consoleErrors,
                   unhandled, call, outside>>

\* a failed load that memoizes the platform all the same
LoadFailed_MarksLoaded(platform) ==
    /\ consoleErrors' = consoleErrors + 1
    /\ loadedConfigs' = loadedConfigs \cup {platform}
    /\ UNCHANGED <<container, requests, alerts, unhandled>>

\* a failed load that logs and asks for the fragment again
LoadFailed_Retries(platform) ==
    /\ consoleErrors' = consoleErrors + 1
    /\ requests' = [requests EXCEPT ![platform] = @ + 1]
    /\ UNCHANGED <<container, loadedConfigs, alerts, unhandled>>

\* what a failed load does: the else branch and the catch block both log
LoadFailed(platform) ==
    /\ consoleErrors' = consoleErrors + 1
    /\ UNCHANGED <<container, loadedConfigs, requests, alerts, unhandled>>

\* fetch() resolves with an OK response: response.text() is awaited next
FetchOk(platform) ==
    /\ fetching[platform] > 0
    /\ fetching' = [fetching EXCEPT ![platform] = @ - 1]
    /\ reading' = [reading EXCEPT ![platform] = @ + 1]
    /\ UNCHANGED <<checked, container, loadedConfigs, requests, resultsDisplay,
                   resultsContent, timers, alerts, consoleErrors, unhandled,
                   nEvents, call, outside>>

\* fetch() resolves with a non-OK response, or rejects
FetchFailed(platform) ==
    /\ fetching[platform] > 0
    /\ fetching' = [fetching EXCEPT ![platform] = @ - 1]
    /\ LoadFailed(platform)
    /\ UNCHANGED <<checked, reading, resultsDisplay, resultsContent, timers,
                   nEvents, call, outside>>

\* response.text() resolves: the fragment is appended and the memo updated
TextOk(platform) ==
    /\ reading[platform] > 0
    /\ reading' = [reading EXCEPT ![platform] = @ - 1]
    /\ container' = Append(container, ConfigDiv(platform))
    /\ loadedConfigs' = loadedConfigs \cup {platform}
    /\ UNCHANGED <<checked, requests, fetching, resultsDisplay, resultsContent, timers,
                   alerts, consoleErrors, unhandled, nEvents, call, outside>>

\* response.text() rejects: the catch block logs
TextFailed(platform) ==
    /\ reading[platform] > 0
    /\ reading' = [reading EXCEPT ![platform] = @ - 1]
    /\ LoadFailed(platform)
    /\ UNCHANGED <<checked, fetching, resultsDisplay, resultsContent, timers,
                   nEvents, call, outside>>

\* the user edits one control of one fragment in the page
UserInput(i, id, v) ==
    /\ nEvents < MaxEvents
    /\ nEvents' = nEvents + 1
    /\ container[i].value[id] # v
    /\ container' = [container EXCEPT ![i].value[id] = v]
    /\ UNCHANGED <<checked, loadedConfigs, requests, fetching, reading, resultsDisplay,
                   resultsContent, timers, alerts, consoleErrors, unhandled,
                   call, outside>>

NoPlatformAlert == "Please select at least one platform"
RequiredFieldsAlert == "Please fill in all required fields for selected platforms"

\* startScraping: the loading state, then the timer is set
startScraping(configs) ==
    /\ IF HasElement("results") /\ HasElement("results-content")
       THEN /\ resultsDisplay' = "block"
            /\ resultsContent' = LoadingHtml(configs)
            /\ timers' = Append(timers, configs)
       ELSE UNCHANGED <<resultsDisplay, resultsContent, timers>>
    /\ UNCHANGED alerts

\* handleSubmit without its first check
SubmitOutcome_SkipsPlatformCheck(selectedPlatforms, configs) ==
    IF Len(configs) = 0 THEN "noConfig" ELSE "scrape"

\* which of handleSubmit's three exits a submit takes
SubmitOutcome(selectedPlatforms, configs) ==
    IF Len(selectedPlatforms) = 0 THEN "noPlatform"
    ELSE IF Len(configs) = 0 THEN "noConfig"
    ELSE "scrape"

HandleSubmit ==
    /\ HasElement("scraper-form")
    /\ nEvents < MaxEvents
    /\ nEvents' = nEvents + 1
    /\ LET selectedPlatforms == getSelectedPlatforms
           configs == getAllPlatformConfigs(selectedPlatforms, container)
           outcome == SubmitOutcome(selectedPlatforms, configs)
       IN  CASE outcome = "noPlatform" ->
                  /\ alerts' = Append(alerts, NoPlatformAlert)
                  /\ UNCHANGED <<resultsDisplay, resultsContent, timers>>
             [] outcome = "noConfig" ->
                  /\ alerts' = Append(alerts, RequiredFieldsAlert)
                  /\ UNCHANGED <<resultsDisplay, resultsContent, timers>>
             [] outcome = "scrape" -> startScraping(configs)
    /\ UNCHANGED <<checked, container, loadedConfigs, requests, fetching, reading,
                   consoleErrors, unhandled, call, outside>>

\* the timer callback that fires: equal delays fire in the order they were set
DueTimer == 1

\* the timer callback: the results of its own configs replace the content
TimerFires ==
    /\ timers # <<>>
    /\ resultsContent' = ResultsHtml(timers[DueTimer])
    /\ timers' = RemoveAt(timers, DueTimer)
    /\ UNCHANGED <<checked, container, loadedConfigs, requests, fetching, reading,
                   resultsDisplay, alerts, consoleErrors, unhandled, nEvents, call, outside>>

Next ==
    \/ \E p \in Platforms : HandlePlatformToggle(p)
    \/ \E p \in Platforms : FetchOk(p)
    \/ \E p \in Platforms : FetchFailed(p)
    \/ \E p \in Platforms : TextOk(p)
    \/ \E p \in Platforms : TextFailed(p)
    \/ \E i \in 1..Len(container) : \E id \in DOMAIN container[i].value :
          \E v \in FieldValues(id) : UserInput(i, id, v)
    \/ HandleSubmit
    \/ TimerFires

Spec == Init /\ [][Next]_vars

\* a timer that was set fires: the page stays open and the event loop runs
FairSpec == Spec /\ WF_vars(TimerFires)

-----------------------------------------------------------------------------
(* getPlatformConfig called directly, on any document of bounded size and   *)
(* with any platform name.                                                  *)

\* the documents hold at most this many config elements
MaxDomLen == 1

\* a config element holding any of its fragment's controls, with any values
AnyConfigDiv ==
    UNION {
      UNION { { [platform |-> p, value |-> v] : v \in [ids -> UNION {FieldValues(id) : id \in ids}] }
              : ids \in SUBSET (DOMAIN FragmentHtml(p)) }
      : p \in Platforms }

WellValued(div) == \A id \in DOMAIN div.value : div.value[id] \in FieldValues(id)

AnyDom ==
    UNION { { dom \in [1..n -> AnyConfigDiv] : \A i \in 1..n : WellValued(dom[i]) }
            : n \in 0..MaxDomLen }

ConfigInit ==
    /\ checked = [p \in Platforms |-> FALSE]
    /\ container \in AnyDom
    /\ loadedConfigs = {container[i].platform : i \in 1..Len(container)}
    /\ requests = [p \in Platforms |-> 0]
    /\ fetching = [p \in Platforms |-> 0]
    /\ reading = [p \in Platforms |-> 0]
    /\ resultsDisplay = "css"
    /\ resultsContent = [kind |-> "empty"]
    /\ timers = <<>>
    /\ alerts = <<>>
    /\ consoleErrors = 0
    /\ unhandled = 0
    /\ nEvents = 0
    /\ \E p \in Platforms \cup {OtherPlatform} : call = [pc |-> "ready", platform |-> p]
    /\ processPlatform = "linux"
    /\ MainIdle
    /\ ServiceIdle

CallGetPlatformConfig ==
    /\ call.pc = "ready"
    /\ call' = [pc |-> "returned", platform |-> call.platform,
                ret |-> getPlatformConfig(call.platform, container)]
    /\ UNCHANGED <<checked, container, loadedConfigs, requests, fetching, reading,
                   resultsDisplay, resultsContent, timers, alerts, consoleErrors,
                   unhandled, nEvents, outside>>

ConfigNext == CallGetPlatformConfig

ConfigSpec == ConfigInit /\ [][ConfigNext]_vars

-----------------------------------------------------------------------------
(* Properties *)

InFlight(platform) == fetching[platform] + reading[platform]

NumFragments(platform) == Cardinality(FragmentsOf(container, platform))

\* C1: whatever the interleaving of change events and fetch completions, the
\* config container holds at most one config-<platform> element per platform.
C1_AtMostOneFragment ==
    \A p \in Platforms : NumFragments(p) <= 1

\* C2: whenever a platform's checkbox is unchecked and no fetch for it is in
\* flight, the container holds no fragment element for it.
C2_UncheckedHasNoFragment ==
    \A p \in Platforms :
        (~checked[p] /\ InFlight(p) = 0) => NumFragments(p) = 0

\* C3: no fetch for a platform is issued while its fragment is in the
\* container, and never are two fetches for one platform in flight.
C3_NoDuplicateFetch ==
    [][\A p \in Platforms :
          /\ requests'[p] # requests[p] => NumFragments(p) = 0
          /\ fetching'[p] + reading'[p] <= 1]_vars


\* the control whose value each case of getPlatformConfig requires
RequiredId(platform) ==
    CASE platform = "twitter" -> "twitter-query"
      [] platform = "instagram" -> "instagram-username"
      [] platform = "facebook" -> "facebook-page"
      [] platform = "reddit" -> "reddit-subreddit"

NoneChecked == \A p \in Platforms : ~checked[p]

\* selected platforms whose fragment is in the page and whose required field is empty
EmptyRequired ==
    {p \in Platforms : checked[p] /\ ValueOf(container, RequiredId(p)) = ""}

\* selected platforms whose load failed: checked, nothing in flight, and no
\* fragment in the page
MissingSelected ==
    {p \in Platforms : checked[p] /\ InFlight(p) = 0 /\ NumFragments(p) = 0}

IsSelectedWithFragment(p) == checked[p] /\ NumFragments(p) > 0

\* the configs of the selected platforms that do have a fragment
RemainingConfigs ==
    getAllPlatformConfigs(SelectSeq(Checkboxes, IsSelectedWithFragment), container)

LastAlert == IF alerts = <<>> THEN "" ELSE alerts[Len(alerts)]

\* C4: a submit with no checkbox checked raises the select-a-platform alert
\* and changes nothing else: no timer is set, and the results panel, the
\* container and loadedConfigs stay as they were.
C4_NoPlatformSubmit ==
    [][(HandleSubmit /\ NoneChecked) =>
          /\ alerts' = Append(alerts, NoPlatformAlert)
          /\ UNCHANGED <<timers, resultsDisplay, resultsContent, container,
                         loadedConfigs, requests, fetching, reading>>]_vars

\* a submit with nothing checked has raised the alert while an earlier
\* submit's timer is still pending
C4_Witness ==
    /\ NoneChecked
    /\ LastAlert = NoPlatformAlert
    /\ timers # <<>>

\* C5: a submit while some selected platform's required field is empty raises
\* an alert and starts no scraping.
C5_MissingRequiredBlocks ==
    [][(HandleSubmit /\ EmptyRequired # {}) =>
          /\ Len(alerts') = Len(alerts) + 1
          /\ UNCHANGED <<timers, resultsDisplay, resultsContent>>]_vars

\* C6: a failed fragment load logs to the console and nothing more: no
\* fragment is added, the memo is unchanged, no alert is raised, no rejection
\* leaves the handler.
C6_FailedFetchOnlyLogs ==
    [][(\E p \in Platforms : FetchFailed(p) \/ TextFailed(p)) =>
          /\ consoleErrors' = consoleErrors + 1
          /\ UNCHANGED <<container, loadedConfigs, alerts, unhandled, checked,
                         requests, resultsDisplay, resultsContent, timers>>]_vars

\* a load has failed for a platform that is still checked
C6_Witness ==
    /\ consoleErrors > 0
    /\ \E p \in Platforms :
          checked[p] /\ InFlight(p) = 0 /\ NumFragments(p) = 0
            /\ p \notin loadedConfigs

\* C7 as claimed: a submit while a selected platform has no fragment raises no
\* alert and starts scraping with the configs of the remaining platforms.
C7_MissingFragmentOmitted ==
    [][(HandleSubmit /\ MissingSelected # {}) =>
          /\ alerts' = alerts
          /\ timers' = Append(timers, RemainingConfigs)]_vars

\* C7 as amended: such a submit starts scraping with the configs of the
\* remaining platforms, without an alert, when there is at least one; when
\* there is none it raises the required-fields alert and starts nothing.
C7_MissingFragmentOmittedOrAlert ==
    [][(HandleSubmit /\ MissingSelected # {}) =>
          IF RemainingConfigs # <<>>
          THEN /\ alerts' = alerts
               /\ resultsDisplay' = "block"
               /\ timers' = Append(timers, RemainingConfigs)
          ELSE /\ alerts' = Append(alerts, RequiredFieldsAlert)
               /\ UNCHANGED <<timers, resultsDisplay, resultsContent>>]_vars

\* scraping was started by a submit made while a selected platform's load had
\* failed (no change event came after the submit: the panel is still shown)
C7_Witness ==
    /\ consoleErrors > 0
    /\ resultsDisplay = "block"
    /\ timers # <<>>
    /\ \E p \in MissingSelected : requests[p] > 0

\* the content shows one completed entry per config, in order, each config echoed
Echoes(content, configs) ==
    /\ content.kind = "results"
    /\ Len(content.entries) = Len(configs)
    /\ \A i \in 1..Len(configs) :
          /\ content.entries[i].status = "Scraping completed!"
          /\ content.entries[i].json = configs[i]

\* a selected platform whose required field is filled in
YieldsConfig(p) ==
    checked[p] /\ ValueOf(container, RequiredId(p)) \notin {Undefined, ""}

\* some selected platform yields a config
Validated == \E p \in Platforms : YieldsConfig(p)

\* C8: a submit that passes validation shows the panel in its loading state,
\* naming the platforms that yield a config, and sets a timer for the collected configs; the timer's callback shows one
\* completed entry per collected config, in order, each echoing its config;
\* and every timer set does fire.
C8_ResultsShown ==
    /\ [][(HandleSubmit /\ Validated) =>
             /\ resultsDisplay' = "block"
             /\ resultsContent'.kind = "loading"
             /\ resultsContent'.platforms = SelectSeq(Checkboxes, YieldsConfig)
             /\ timers' = Append(timers,
                    getAllPlatformConfigs(getSelectedPlatforms, container))]_vars
    /\ [][TimerFires =>
             /\ Echoes(resultsContent', Head(timers))
             /\ timers' = Tail(timers)]_vars
    /\ (timers # <<>>) ~> (timers = <<>> /\ resultsContent.kind = "results")

\* the completed results of a submit that collected two configs are shown
C8_Witness ==
    /\ resultsContent.kind = "results"
    /\ Len(resultsContent.entries) = 2

\* the keys of each platform's config
ConfigKeys(platform) ==
    CASE platform = "twitter" -> {"platform", "query", "count"}
      [] platform = "instagram" -> {"platform", "username", "type"}
      [] platform = "facebook" -> {"platform", "page", "contentType"}
      [] platform = "reddit" -> {"platform", "subreddit", "sort", "limit"}
      [] OTHER -> {}

\* C9: getPlatformConfig returns, for one of the four platforms whose required
\* field is non-empty, an object with exactly that platform's keys and the
\* platform's name; it returns null for any other name and whenever the
\* required field is empty or absent.
C9_ConfigShape ==
    call.pc = "returned" =>
        LET p == call.platform
            r == call.ret
        IN  IF /\ ConfigKeys(p) # {}
               /\ ValueOf(container, RequiredId(p)) \notin {Undefined, ""}
            THEN /\ r # Null
                 /\ Keys(r) = ConfigKeys(p)
                 /\ Len(r) = Cardinality(ConfigKeys(p))
                 /\ Field(r, "platform") = p
            ELSE r = Null

\* a config was returned for reddit with the default limit
C9_Witness ==
    /\ call.pc = "returned"
    /\ call.platform = "reddit"
    /\ call.ret # Null
    /\ Field(call.ret, "limit") = "25"

\* C10: a fetch is issued only by a step that checks the platform's checkbox,
\* and such a step issues one fetch; so a failed load is not retried until the
\* checkbox is checked again.
C10_NoRetries ==
    [][\A p \in Platforms :
          requests'[p] # requests[p] =>
             /\ requests'[p] = requests[p] + 1
             /\ ~checked[p] /\ checked'[p]
             /\ \A q \in Platforms \ {p} : requests'[q] = requests[q]]_vars

\* a load has failed, its checkbox is still checked and nothing is in flight
C10_Witness ==
    \E p \in Platforms :
        /\ checked[p] /\ InFlight(p) = 0 /\ NumFragments(p) = 0
        /\ requests[p] > 0
        /\ consoleErrors >= requests[p]

\* C14: in every reachable state a platform is in loadedConfigs exactly when
\* the container holds a fragment element for it.
C14_MemoIsContainer ==
    \A p \in Platforms : (p \in loadedConfigs) <=> (NumFragments(p) > 0)

\* C15: every change event hides the results panel; a hidden panel is shown
\* again only by a submit that passes validation; a timer callback leaves the
\* panel's visibility as it is.
C15_ToggleHidesResults ==
    [][/\ (\E p \in Platforms : HandlePlatformToggle(p)) => resultsDisplay' = "none"
       /\ (resultsDisplay = "none" /\ resultsDisplay' # "none")
             => (HandleSubmit /\ Validated /\ resultsDisplay' = "block")
       /\ TimerFires => resultsDisplay' = resultsDisplay]_vars

\* a change event came after a validated submit and that submit's timer has
\* fired since: the results are written and the panel is hidden
C15_Witness ==
    /\ resultsDisplay = "none"
    /\ resultsContent.kind = "results"
    /\ timers = <<>>

\* C16: completed results displayed while a later submit's timer is pending
\* are those of the most recent validated submit, never an earlier one's.
C16_LatestResultsOnly ==
    (resultsContent.kind = "results" /\ timers # <<>>)
       => Echoes(resultsContent, timers[Len(timers)])

-----------------------------------------------------------------------------
(* The main process: WindowManager                                          *)

\* at most this many BrowserWindows are constructed
MaxWindows == 3

\* createWindow's defaultOptions before ...options
DefaultOptions ==
    [width |-> 800, height |-> 600,
     nodeIntegration |-> FALSE, contextIsolation |-> TRUE]

\* the options createWindow is called with
SomeOptions == {<<>>, [width |-> 1200, height |-> 800]}

\* loadFile was not called on the window
NoFile == "none"

\* new BrowserWindow(options): Electron throws when the app is not ready
ConstructorThrows(ready) == ~ready

\* the BrowserWindows that are not closed
OpenWindows ==
    {w \in 1..Len(browserWindows) : browserWindows[w].open}

\* WindowManager.getWindow; NoWindow is undefined
getWindow(name) == windows[name]

\* WindowManager.getAllWindows, as the set of the map's values
getAllWindows == {windows[name] : name \in WindowNames} \ {NoWindow}

\* WindowManager.createWindow, called while the app's readiness is `ready`;
\* `file` is what the caller loads into the returned window at once. The
\* 'closed' listener keeps `name`.
createWindow(name, options, file, ready) ==
    IF ConstructorThrows(ready)
    THEN /\ uncaughtMain' = uncaughtMain + 1
         /\ UNCHANGED <<browserWindows, windows>>
    ELSE /\ browserWindows' = Append(browserWindows,
                [name |-> name, options |-> options @@ DefaultOptions,
                 open |-> TRUE, closeRequested |-> FALSE, file |-> file,
                 loaded |-> FALSE])
         /\ windows' = [windows EXCEPT ![name] = Len(browserWindows) + 1]
         /\ UNCHANGED uncaughtMain

\* the 'closed' listener createWindow attached: this.windows.delete(name)
onClosed(name) == windows' = [windows EXCEPT ![name] = NoWindow]

\* WindowManager.closeWindow: window.close() asks the window to close
closeWindow(name) ==
    LET window == getWindow(name)
    IN  /\ browserWindows' =
              IF window # NoWindow
              THEN [browserWindows EXCEPT ![window].closeRequested = TRUE]
              ELSE browserWindows
        /\ UNCHANGED windows

\* a window closes (its close button, or a close() that was asked for) and
\* emits 'closed'
WindowClosed(w) ==
    /\ w \in OpenWindows
    /\ browserWindows' = [browserWindows EXCEPT ![w].open = FALSE]
    /\ onClosed(browserWindows[w].name)

(* WindowManager alone, called by any client of a ready app *)

WmInit ==
    /\ FormInit
    /\ ServiceIdle
    /\ processPlatform = "linux"
    /\ appReady = TRUE
    /\ browserWindows = <<>>
    /\ windows = [name \in WindowNames |-> NoWindow]
    /\ allClosedPending = FALSE
    /\ quitCalls = 0
    /\ uncaughtMain = 0

WmCreateWindow(name, options) ==
    /\ Len(browserWindows) < MaxWindows
    /\ createWindow(name, options, NoFile, appReady)
    /\ UNCHANGED <<formVars, service, processPlatform, appReady,
                   allClosedPending, quitCalls>>

WmCloseWindow(name) ==
    /\ closeWindow(name)
    /\ UNCHANGED <<formVars, service, processPlatform, appReady,
                   allClosedPending, quitCalls, uncaughtMain>>

WmWindowClosed(w) ==
    /\ WindowClosed(w)
    /\ UNCHANGED <<formVars, service, processPlatform, appReady,
                   allClosedPending, quitCalls, uncaughtMain>>

WmNext ==
    \/ \E name \in WindowNames : \E options \in SomeOptions :
          WmCreateWindow(name, options)
    \/ \E name \in WindowNames : WmCloseWindow(name)
    \/ \E w \in 1..Len(browserWindows) : WmWindowClosed(w)

WmSpec == WmInit /\ [][WmNext]_vars

\* C11: the registry holds exactly the open windows: getAllWindows is the set
\* of the windows created and not yet closed, and getWindow(name) is an open
\* window created under that name when there is one and undefined otherwise.
C11_RegistryIsOpenWindows ==
    /\ getAllWindows = OpenWindows
    /\ \A name \in WindowNames :
          IF \E w \in OpenWindows : browserWindows[w].name = name
          THEN /\ getWindow(name) \in OpenWindows
               /\ browserWindows[getWindow(name)].name = name
          ELSE getWindow(name) = NoWindow

-----------------------------------------------------------------------------
(* The main process: AppController (infrastructure/electron) on top of the  *)
(* WindowManager, driven by Electron's app events.                          *)

\* an activate that comes before the app is ready throws (see
\* ConstructorThrows); at most this many of them are delivered
MaxEarlyActivates == 2

\* process.platform of the systems Electron runs on
ProcessPlatforms == {"darwin", "linux", "win32"}

\* Electron emits 'activate' on macOS only
EmitsActivate == processPlatform = "darwin"

\* a createMainWindow that forgets loadFile
createMainWindow_NoLoad(ready) ==
    createWindow("main", [width |-> 1200, height |-> 800], NoFile, ready)

\* createMainWindow: createWindow('main', {1200 x 800}), then loadFile
createMainWindow(ready) ==
    createWindow("main", [width |-> 1200, height |-> 800], "index.html", ready)

\* onWindowAllClosed without its platform test
ShouldQuit_Always == TRUE

\* the test of onWindowAllClosed
ShouldQuit == processPlatform # "darwin"

\* onActivate that never looks at the registry
ShouldCreateOnActivate_Always == TRUE

\* the test of onActivate
ShouldCreateOnActivate == Cardinality(getAllWindows) = 0

AppInit ==
    /\ FormInit
    /\ ServiceIdle
    /\ processPlatform \in ProcessPlatforms
    /\ MainIdle

\* the app has not quit: Electron still delivers events
Running == quitCalls = 0

\* the app becomes ready and the whenReady().then callback runs onReady
AppReady ==
    /\ Running
    /\ ~appReady
    /\ appReady' = TRUE
    /\ createMainWindow(TRUE)
    /\ UNCHANGED <<formVars, service, processPlatform, allClosedPending,
                   quitCalls>>

\* 'activate': onActivate
Activate ==
    /\ Running
    /\ EmitsActivate
    /\ Len(browserWindows) < MaxWindows
    /\ appReady \/ uncaughtMain < MaxEarlyActivates
    /\ IF ShouldCreateOnActivate
       THEN createMainWindow(appReady)
       ELSE UNCHANGED <<browserWindows, windows, uncaughtMain>>
    /\ UNCHANGED <<formVars, service, processPlatform, appReady,
                   allClosedPending, quitCalls>>

\* the user closes a window; Electron emits window-all-closed after the last
AppWindowClosed(w) ==
    /\ Running
    /\ WindowClosed(w)
    /\ allClosedPending' = (allClosedPending \/ OpenWindows = {w})
    /\ UNCHANGED <<formVars, service, processPlatform, appReady, quitCalls,
                   uncaughtMain>>

\* the page loadFile asked for has finished loading in an open window
PageLoaded(w) ==
    /\ Running
    /\ w \in OpenWindows
    /\ browserWindows[w].file # NoFile
    /\ ~browserWindows[w].loaded
    /\ browserWindows' = [browserWindows EXCEPT ![w].loaded = TRUE]
    /\ UNCHANGED <<formVars, service, processPlatform, appReady, windows,
                   allClosedPending, quitCalls, uncaughtMain>>

\* 'window-all-closed': onWindowAllClosed
WindowAllClosed ==
    /\ Running
    /\ allClosedPending
    /\ allClosedPending' = FALSE
    /\ quitCalls' = IF ShouldQuit THEN quitCalls + 1 ELSE quitCalls
    /\ UNCHANGED <<formVars, service, processPlatform, appReady,
                   browserWindows, windows, uncaughtMain>>

AppNext ==
    \/ AppReady
    \/ Activate
    \/ \E w \in 1..Len(browserWindows) : AppWindowClosed(w)
    \/ \E w \in 1..Len(browserWindows) : PageLoaded(w)
    \/ WindowAllClosed

AppSpec == AppInit /\ [][AppNext]_vars

\* C12: the window-all-closed listener calls app.quit() exactly when the
\* platform is not darwin; on darwin it calls nothing, the app keeps running
\* and the registry is left as it is.
C12_QuitUnlessDarwin ==
    [][WindowAllClosed =>
          /\ (quitCalls' = quitCalls + 1) = (processPlatform # "darwin")
          /\ processPlatform = "darwin" =>
                (quitCalls' = quitCalls /\ Running' /\ UNCHANGED windows)]_vars

\* on darwin the listener has run after the last window closed: no window is
\* left and the app has not quit
C12_Witness ==
    /\ processPlatform = "darwin"
    /\ Len(browserWindows) > 0
    /\ OpenWindows = {}
    /\ ~allClosedPending
    /\ quitCalls = 0

\* the open windows created under the name 'main'
MainWindows == {w \in OpenWindows : browserWindows[w].name = "main"}

\* C17: whatever the order of ready, activate and closed events, at most one
\* window named 'main' is open, and an open main window is the one the
\* registry holds under 'main'.
C17_OneMainWindow ==
    /\ Cardinality(MainWindows) <= 1
    /\ \A w \in MainWindows : getWindow("main") = w

\* an activate came before the app was ready, and later a main window was
\* opened again after the first one had closed
C17_Witness ==
    /\ uncaughtMain > 0
    /\ appReady
    /\ Len(browserWindows) >= 2
    /\ MainWindows # {}

\* the window a step has just constructed is an open main window showing
\* index.html, and the registry holds it
OneMainWindowCreated ==
    /\ Len(browserWindows') = Len(browserWindows) + 1
    /\ \A w \in 1..Len(browserWindows) : browserWindows'[w] = browserWindows[w]
    /\ LET new == browserWindows'[Len(browserWindows')]
       IN  new.name = "main" /\ new.open /\ new.file = "index.html"
    /\ windows' = [windows EXCEPT !["main"] = Len(browserWindows')]

\* C18 as claimed: an activate creates a main window (one, loading
\* index.html) exactly when the registry is empty at that moment.
C18_ActivateCreatesIffEmpty ==
    [][Activate =>
          IF Cardinality(getAllWindows) = 0
          THEN OneMainWindowCreated
          ELSE UNCHANGED <<browserWindows, windows>>]_vars

\* C18 as amended: that holds of an activate delivered once the app is ready;
\* an activate delivered before makes the BrowserWindow constructor throw and
\* creates nothing.
C18_ActivateCreatesIffEmptyAndReady ==
    [][Activate =>
          IF Cardinality(getAllWindows) = 0 /\ appReady
          THEN OneMainWindowCreated /\ UNCHANGED uncaughtMain
          ELSE /\ UNCHANGED <<browserWindows, windows>>
               /\ uncaughtMain' =
                     IF appReady THEN uncaughtMain ELSE uncaughtMain + 1]_vars

\* on darwin every window had closed, the listener did not quit, and an
\* activate has opened a new main window
C18_Witness ==
    /\ processPlatform = "darwin"
    /\ uncaughtMain = 0
    /\ Len(browserWindows) >= 2
    /\ ~allClosedPending
    /\ \A w \in 1..Len(browserWindows) :
          browserWindows[w].open = (w = Len(browserWindows))


-----------------------------------------------------------------------------
(* ExampleService and ExampleUseCase (application/services/ExampleService.ts *)
(* and domain/usecases/ExampleUseCase.ts). A string is the sequence of its  *)
(* characters.                                                              *)

\* calls made in one run
MaxCalls == 2

\* length of a message
MaxMsgLen == 2

\* the characters messages are made of
Chars == {"a", ":"}

Messages == UNION {[1..n -> Chars] : n \in 0..MaxMsgLen}

\* the literal part of the template `Processed: ${message}`
Prefix == <<"P", "r", "o", "c", "e", "s", "s", "e", "d", ":", " ">>

\* the value of a promise that has not settled
Pending == <<"pending">>

\* ExampleUseCase.execute
execute(message) == Prefix \o message

\* a service that hands the message back without its use case
processMessage_Raw(message) == message

\* ExampleService.processMessage: the use case's result, awaited and returned
processMessage(message) == execute(message)

ServiceInit ==
    /\ FormInit
    /\ processPlatform = "linux"
    /\ MainIdle
    /\ ServiceIdle

\* service.processMessage(message) is called: the promise is pending
CallProcessMessage(message) ==
    /\ Len(service) < MaxCalls
    /\ service' = Append(service, [op |-> "processMessage", message |-> message,
                                   result |-> Pending])
    /\ UNCHANGED <<formVars, mainVars>>

\* useCase.execute(message) is called on a use case of its own
CallExecute(message) ==
    /\ Len(service) < MaxCalls
    /\ service' = Append(service, [op |-> "execute", message |-> message,
                                   result |-> Pending])
    /\ UNCHANGED <<formVars, mainVars>>

\* the promise of call i resolves
Resolves(i) ==
    /\ service[i].result = Pending
    /\ service' = [service EXCEPT ![i].result =
                      IF service[i].op = "processMessage"
                      THEN processMessage(service[i].message)
                      ELSE execute(service[i].message)]
    /\ UNCHANGED <<formVars, mainVars>>

ServiceNext ==
    \/ \E message \in Messages : CallProcessMessage(message)
    \/ \E message \in Messages : CallExecute(message)
    \/ \E i \in 1..Len(service) : Resolves(i)

ServiceSpec == ServiceInit /\ [][ServiceNext]_vars

Settled(i) == service[i].result # Pending

\* C13: processMessage(m) resolves to exactly what execute(m) resolves to,
\* the characters of "Processed: " followed by m unaltered, and no call's
\* result depends on the calls made before it: equal messages give equal
\* results, whichever of the two operations was called and in whatever order.
C13_ServiceIsUseCase ==
    /\ \A i \in 1..Len(service) :
          Settled(i) => /\ service[i].result = Prefix \o service[i].message
                        /\ Len(service[i].result) = Len(Prefix) + Len(service[i].message)
    /\ \A i, j \in 1..Len(service) :
          Settled(i) /\ Settled(j) /\ service[i].message = service[j].message
             => service[i].result = service[j].result

\* a processMessage call and an execute call of the same non-empty message
\* have both resolved
C13_Witness ==
    \E i, j \in 1..Len(service) :
        /\ service[i].op = "processMessage" /\ service[j].op = "execute"
        /\ Settled(i) /\ Settled(j)
        /\ service[i].message = service[j].message
        /\ service[i].message # <<>>


-----------------------------------------------------------------------------
(* handleSubmit on any page the toggles and loads can have left behind: any *)
(* checkboxes checked, and in the container fragments of any platforms, of  *)
(* checked and unchecked ones and of one platform twice, in any order and   *)
(* with any values typed in.                                                *)

\* the container holds at most this many fragments
MaxPageLen == 2

\* a complete fragment with any values in its controls
AnyFragment ==
    UNION { { [platform |-> p, value |-> v] :
                v \in { f \in [DOMAIN FragmentHtml(p) ->
                                  UNION {FieldValues(id) : id \in DOMAIN FragmentHtml(p)}] :
                          \A id \in DOMAIN f : f[id] \in FieldValues(id) } }
            : p \in Platforms }

AnyPage == UNION {[1..n -> AnyFragment] : n \in 0..MaxPageLen}

\* one event is left of those the user dispatches
SubmitInit ==
    /\ checked \in [Platforms -> BOOLEAN]
    /\ container \in AnyPage
    /\ loadedConfigs = {container[i].platform : i \in 1..Len(container)}
    /\ requests = [p \in Platforms |-> NumFragments(p)]
    /\ fetching = [p \in Platforms |-> 0]
    /\ reading = [p \in Platforms |-> 0]
    /\ resultsDisplay = "none"
    /\ resultsContent = [kind |-> "empty"]
    /\ timers = <<>>
    /\ alerts = <<>>
    /\ consoleErrors = 0
    /\ unhandled = 0
    /\ nEvents = MaxEvents - 1
    /\ call = [pc |-> "none"]
    /\ processPlatform = "linux"
    /\ MainIdle
    /\ ServiceIdle

SubmitNext ==
    \/ HandleSubmit
    \/ TimerFires

SubmitSpec == SubmitInit /\ [][SubmitNext]_vars

\* the place of a platform's checkbox in the document
CheckboxIndex(platform) ==
    CHOOSE i \in 1..Len(Checkboxes) : Checkboxes[i] = platform

\* the configs a step passed to startScraping: those of the timer it set
PassedConfigs(before, after) ==
    IF Len(after) > Len(before) THEN after[Len(after)] ELSE <<>>

\* an unchecked platform whose fragment is in the page with its required
\* field filled in
FilledOrphans ==
    {p \in Platforms : ~checked[p] /\ Truthy(ValueOf(container, RequiredId(p)))}

\* C19: every config a submit passes to startScraping is that of a platform
\* checked at the submit whose required field is non-empty; the configs follow
\* the checkboxes' document order with no platform twice; a fragment of an
\* unchecked platform contributes none.
C19_ConfigsOfCheckedOnly ==
    [][HandleSubmit =>
          LET configs == PassedConfigs(timers, timers')
              platformOf(i) == Field(configs[i], "platform")
          IN  /\ \A i \in 1..Len(configs) :
                    /\ platformOf(i) \in Platforms
                    /\ checked[platformOf(i)]
                    /\ Truthy(ValueOf(container, RequiredId(platformOf(i))))
              /\ \A i, j \in 1..Len(configs) :
                    i < j => CheckboxIndex(platformOf(i)) < CheckboxIndex(platformOf(j))
              /\ \A p \in FilledOrphans :
                    \A i \in 1..Len(configs) : platformOf(i) # p]_vars

\* scraping was started with the config of a checked platform while the page
\* held the filled-in fragment of an unchecked one
C19_Witness ==
    /\ timers # <<>>
    /\ Len(timers[1]) = 1
    /\ FilledOrphans # {}

=============================================================================
